---- MODULE Spec2Model ----
(***************************************************************************)
(* gcs-upload: bulk upload of a local file tree (or of an explicit list of *)
(* files) to a bucket, with a bounded number of concurrent upload tasks.   *)
(* The model follows run() of the list-file variant of the program: the    *)
(* configuration checks, writeListFile, shuffleListFile, the submission    *)
(* loop over the list file's lines, the errgroup of upload tasks with its  *)
(* limit and its cancellable context, the sync.Pool of copy buffers and    *)
(* the atomic upload counter.                                              *)
(***************************************************************************)
EXTENDS Naturals, Sequences, FiniteSets, TLC

(***************************************************************************)
(* Bounds of the model.                                                    *)
(***************************************************************************)
\* the largest number of files of a source tree / lines of a list file
MaxFiles == 2
\* the largest value of the -n flag (the flag's values below 1 are left out)
MaxN == 2

(***************************************************************************)
(* Strings are sequences of one-character strings.                         *)
(***************************************************************************)
CR == "\r"
LF == "\n"
Slash == "/"
BackSlash == "\\"

\* the concatenation of a sequence of strings
RECURSIVE Concat(_)
Concat(ss) == IF ss = <<>> THEN <<>> ELSE Head(ss) \o Concat(Tail(ss))

\* s cut at every occurrence of the character c (strings.Split)
RECURSIVE SplitOn(_, _)
SplitOn(s, c) ==
    IF \A k \in 1..Len(s) : s[k] # c
    THEN <<s>>
    ELSE LET k == CHOOSE j \in 1..Len(s) :
                      s[j] = c /\ \A m \in 1..(j - 1) : s[m] # c
         IN  <<SubSeq(s, 1, k - 1)>> \o SplitOn(SubSeq(s, k + 1, Len(s)), c)

\* the strings of ss with sep between them (strings.Join)
RECURSIVE JoinWith(_, _)
JoinWith(ss, sep) ==
    IF ss = <<>> THEN <<>>
    ELSE IF Len(ss) = 1 THEN Head(ss)
    ELSE Head(ss) \o sep \o JoinWith(Tail(ss), sep)

\* path.Clean's pass over the elements of a path: "" and "." are dropped,
\* ".." removes the element before it, or stays when the path is not
\* rooted and there is none to remove
RECURSIVE CleanSegs(_, _, _)
CleanSegs(segs, acc, rooted) ==
    IF segs = <<>> THEN acc
    ELSE LET s == Head(segs)
             rest == Tail(segs)
         IN  IF s = <<>> \/ s = <<".">>
             THEN CleanSegs(rest, acc, rooted)
             ELSE IF s = <<".", ".">>
             THEN IF acc # <<>> /\ acc[Len(acc)] # <<".", ".">>
                  THEN CleanSegs(rest, SubSeq(acc, 1, Len(acc) - 1), rooted)
                  ELSE IF rooted
                  THEN CleanSegs(rest, acc, rooted)
                  ELSE CleanSegs(rest, Append(acc, s), rooted)
             ELSE CleanSegs(rest, Append(acc, s), rooted)

\* path.Clean
Clean(p) ==
    IF p = <<>> THEN <<".">>
    ELSE LET rooted == p[1] = Slash
             body == JoinWith(CleanSegs(SplitOn(p, Slash), <<>>, rooted), <<Slash>>)
         IN  IF rooted THEN <<Slash>> \o body
             ELSE IF body = <<>> THEN <<".">> ELSE body

\* path.Join: the non-empty elements joined by "/" and cleaned; "" when
\* every element is empty
PathJoin(a, b) ==
    LET elems == SelectSeq(<<a, b>>, LAMBDA e : e # <<>>)
    IN  IF elems = <<>> THEN <<>> ELSE Clean(JoinWith(elems, <<Slash>>))

\* filepath.ToSlash: the identity where the separator is "/", and every
\* "\" replaced by "/" on windows
ToSlash(os, s) ==
    IF os = "windows"
    THEN [k \in 1..Len(s) |-> IF s[k] = BackSlash THEN Slash ELSE s[k]]
    ELSE s

\* the list file writeListFile writes: each path followed by a newline
Serialize(paths) == Concat([k \in 1..Len(paths) |-> paths[k] \o <<LF>>])

\* bufio.ScanLines' dropCR: one trailing carriage return is removed
DropCR(s) ==
    IF s # <<>> /\ s[Len(s)] = CR THEN SubSeq(s, 1, Len(s) - 1) ELSE s

\* the tokens bufio.Scanner yields with its default split function: the
\* data cut at newlines, each line without its trailing carriage return,
\* and a last line without newline when it is not empty
ScanLines(data) ==
    LET parts == SplitOn(data, LF)
        last == parts[Len(parts)]
        body == IF last = <<>> THEN SubSeq(parts, 1, Len(parts) - 1) ELSE parts
    IN  [k \in 1..Len(body) |-> DropCR(body[k])]

\* the permutations of 1..k
Perms(k) == {p \in [1..k -> 1..k] : \A a, b \in 1..k : p[a] = p[b] => a = b}

(***************************************************************************)
(* Inputs.                                                                 *)
(***************************************************************************)
\* destinations as url.ParseRequestURI returns them: gs://bucket/prefix,
\* gs://bucket and http://bucket/prefix
Dests ==
    { [scheme |-> "gs", host |-> "bucket", path |-> <<"/", "p">>],
      [scheme |-> "gs", host |-> "bucket", path |-> <<>>],
      [scheme |-> "http", host |-> "bucket", path |-> <<"/", "p">>] }

\* relative paths of regular files, in the order fs.WalkDir visits them
FileNames == << <<"a">>, <<"b", "/", "c">>, <<"d">>, <<"e">> >>

\* a tree with a file whose name ends in a carriage return
CRTree == << <<"a">>, <<"a", CR>> >>

\* a list whose line ends in two carriage returns
CRCRList == << <<"a", CR, CR>> >>

\* a list whose line is the Windows spelling of "b/c"
WinList == << <<"b", BackSlash, "c">> >>

\* the source trees (and list files) of the model: the first k paths, the
\* tree with the carriage return, and the two one-line lists
Sources ==
    {SubSeq(FileNames, 1, k) : k \in 0..MaxFiles} \cup {CRTree, CRCRList, WinList}

\* errors of tasks: the stage fmt.Errorf names and the task
NoErr == [stage |-> "nil", task |-> 0]
Err(stage, i) == [stage |-> stage, task |-> i]

\* what run() returns: the wrapping message and the wrapped task error
RunErr(kind, cause) == [kind |-> kind, cause |-> cause]
Running == RunErr("running", NoErr)
Nil == RunErr("nil", NoErr)

VARIABLES
    dirSet,       \* -d is given
    listSet,      \* -l is given
    shuffle,      \* -shuffle
    n,            \* -n
    dest,         \* the parsed destination
    goos,         \* the operating system of the build
    gcInterval,   \* -gc
    src,          \* the files of the source tree (-d) or the lines of the list (-l)
    mainpc,       \* where run() is
    result,       \* what run() returned
    temps,        \* the temporary files that exist
    deferredRm,   \* the temporary files a deferred os.Remove names
    listData,     \* the contents of the file listFilePath names
    scanPos,      \* the number of lines listFileScanner has returned
    pending,      \* the line the loop is submitting
    scanErr,      \* listFileScanner.Err() is not nil
    tasks,        \* the goroutines eg.Go started, in submission order
    cancelled,    \* the group's context is done
    gerr,         \* the group's err
    pool,         \* the number of buffers uploadBufPool holds
    allocated,    \* the number of buffers uploadBufPool.New made
    count,        \* the upload counter
    gcPasses,     \* the number of runtime.GC() calls of the tasks
    totalLogged,  \* the number of "total:" lines logged
    crashed,      \* the process died of a panic
    did,          \* history: what run() did before the upload phase
    faults,       \* history: the steps that failed
    firstFail     \* history: the first task whose error reached the group, or 0

vars == <<dirSet, listSet, shuffle, n, dest, goos, src, mainpc, result, temps,
          deferredRm, listData, scanPos, pending, scanErr, tasks, cancelled,
          gerr, pool, allocated, count, totalLogged, crashed, did, faults,
          firstFail, gcInterval, gcPasses>>

flagVars == <<dirSet, listSet, shuffle, n, dest, goos, src, gcInterval>>
counters == <<count, gcPasses>>
groupVars == <<tasks, cancelled, gerr, pool, allocated, counters, firstFail>>

Init ==
    /\ dirSet \in BOOLEAN
    /\ listSet \in BOOLEAN
    /\ shuffle \in BOOLEAN
    /\ n \in 1..MaxN
    /\ dest \in Dests
    /\ goos = "linux"
    /\ gcInterval = 0
    /\ src \in Sources
    /\ mainpc = "config"
    /\ result = Running
    /\ temps = {}
    /\ deferredRm = {}
    /\ listData = IF listSet THEN Serialize(src) ELSE <<>>
    /\ scanPos = 0
    /\ pending = <<>>
    /\ scanErr = FALSE
    /\ tasks = <<>>
    /\ cancelled = FALSE
    /\ gerr = NoErr
    /\ pool = 0
    /\ allocated = 0
    /\ count = 0
    /\ gcPasses = 0
    /\ totalLogged = 0
    /\ crashed = FALSE
    /\ did = {}
    /\ faults = {}
    /\ firstFail = 0

\* run() returns err: the deferred os.Remove calls run on the files they
\* name; created are the temporary files the returning step made
Return(err, created) ==
    /\ mainpc' = "returned"
    /\ result' = err
    /\ temps' = (temps \cup created) \ deferredRm'

\* mutant: the scheme of the destination is not checked
ConfigErrorNoScheme ==
    IF ~listSet /\ ~dirSet THEN RunErr("target not found", NoErr)
    ELSE IF listSet /\ dirSet THEN RunErr("cannot use both -l and -d", NoErr)
    ELSE Nil

\* the configuration error of the flags and the destination, Nil if none
ConfigError ==
    IF ~listSet /\ ~dirSet THEN RunErr("target not found", NoErr)
    ELSE IF listSet /\ dirSet THEN RunErr("cannot use both -l and -d", NoErr)
    ELSE IF dest.scheme # "gs" THEN RunErr("dest must start with gs://", NoErr)
    ELSE Nil

\* the step of run() after the configuration checks
AfterConfig == IF dirSet THEN "writeList" ELSE IF shuffle THEN "shuffle" ELSE "openList"

\* flag.Parse and the checks of the arguments and of the destination
CheckConfig ==
    /\ mainpc = "config"
    /\ ~crashed
    /\ UNCHANGED <<flagVars, groupVars, deferredRm, listData, scanPos, pending,
                   scanErr, totalLogged, crashed, did, faults>>
    /\ IF ConfigError # Nil
       THEN Return(ConfigError, {})
       ELSE /\ mainpc' = AfterConfig
            /\ UNCHANGED <<result, temps>>

\* if *dir != "": writeListFile(*dir), the deferred os.Remove of the file it
\* names, and the return on its error. CreateTemp, the walk (with its
\* writes) and Close can each fail
WriteListFile ==
    /\ mainpc = "writeList"
    /\ ~crashed
    /\ UNCHANGED <<flagVars, groupVars, scanPos, pending, scanErr, totalLogged,
                   crashed>>
    /\ \E outcome \in {"create fails", "walk fails", "close fails", "ok"} :
          LET lf == IF outcome = "create fails" THEN {} ELSE {"list"}
          IN  /\ deferredRm' = deferredRm \cup lf
              /\ did' = did \cup {"create temp"}
                            \cup (IF outcome = "create fails" THEN {} ELSE {"enumerate"})
              /\ IF outcome = "ok"
                 THEN /\ listData' = Serialize(src)
                      /\ temps' = temps \cup lf
                      /\ mainpc' = IF shuffle THEN "shuffle" ELSE "openList"
                      /\ UNCHANGED <<result, faults>>
                 ELSE /\ faults' = faults \cup {outcome}
                      /\ UNCHANGED listData
                      /\ Return(RunErr("write list file", NoErr), lf)

\* the lines of a list in the order perm gives
Permuted(lines, perm) == [k \in 1..Len(lines) |-> lines[perm[k]]]

\* what rand.Shuffle can make of the lines: every order
Shuffled(lines) == {Permuted(lines, p) : p \in Perms(Len(lines))}

\* if *shuffle: shuffleListFile(*listFilePath), the deferred os.Remove of
\* the file it names, and the return on its error. shuffleListFile returns
\* "" for the name on each of its errors
ShuffleListFile ==
    /\ mainpc = "shuffle"
    /\ ~crashed
    /\ UNCHANGED <<flagVars, groupVars, scanPos, pending, scanErr, totalLogged,
                   crashed>>
    /\ \E outcome \in {"open fails", "scan fails", "create fails",
                       "write fails", "close fails", "ok"} :
          LET made == IF outcome \in {"write fails", "close fails", "ok"}
                      THEN {"shuffled"} ELSE {}
              lf == IF outcome = "ok" THEN {"shuffled"} ELSE {}
          IN  /\ deferredRm' = deferredRm \cup lf
              /\ did' = did \cup {"open list"}
                            \cup (IF made # {} THEN {"create temp"} ELSE {})
              /\ IF outcome = "ok"
                 THEN /\ listData' \in {Serialize(ls) : ls \in Shuffled(ScanLines(listData))}
                      /\ temps' = temps \cup made
                      /\ mainpc' = "openList"
                      /\ UNCHANGED <<result, faults>>
                 ELSE /\ faults' = faults \cup {outcome}
                      /\ UNCHANGED listData
                      /\ Return(RunErr("shuffle list file", NoErr), made)

\* listFile, err := openFile(*listFilePath)
OpenList ==
    /\ mainpc = "openList"
    /\ ~crashed
    /\ UNCHANGED <<flagVars, groupVars, deferredRm, listData, scanPos, pending,
                   scanErr, totalLogged, crashed>>
    /\ did' = did \cup {"open list"}
    /\ \E ok \in BOOLEAN :
          IF ok
          THEN /\ mainpc' = "newClient"
               /\ UNCHANGED <<result, temps, faults>>
          ELSE /\ faults' = faults \cup {"open list fails"}
               /\ Return(RunErr("open list file", NoErr), {})

\* storage.NewClient, then the pool, the counter, uploadsStart and the group
NewClient ==
    /\ mainpc = "newClient"
    /\ ~crashed
    /\ UNCHANGED <<flagVars, groupVars, deferredRm, listData, scanPos, pending,
                   scanErr, totalLogged, crashed>>
    /\ \E ok \in BOOLEAN :
          IF ok
          THEN /\ mainpc' = "scan"
               /\ did' = did \cup {"new client", "uploads start"}
               /\ UNCHANGED <<result, temps, faults>>
          ELSE /\ faults' = faults \cup {"new client fails"}
               /\ did' = did \cup {"new client"}
               /\ Return(RunErr("storage client", NoErr), {})

mainVars == <<mainpc, result, temps, deferredRm, listData, scanPos, pending,
              scanErr, totalLogged, did>>

\* for listFileScanner.Scan(): the next line, or a read error in its place,
\* after which the loop ends and Err() is not nil; or the end of the list
ScanNext ==
    /\ mainpc = "scan"
    /\ ~crashed
    /\ UNCHANGED <<flagVars, groupVars, result, temps, deferredRm, listData,
                   totalLogged, crashed, did>>
    /\ LET lines == ScanLines(listData)
       IN  \/ /\ scanPos < Len(lines)
              /\ pending' = lines[scanPos + 1]
              /\ scanPos' = scanPos + 1
              /\ mainpc' = "go"
              /\ UNCHANGED <<scanErr, faults>>
           \/ /\ scanPos = Len(lines)
              /\ mainpc' = "wait"
              /\ UNCHANGED <<scanPos, pending, scanErr, faults>>
           \/ /\ scanPos < Len(lines)
              /\ scanErr' = TRUE
              /\ faults' = faults \cup {"scan fails"}
              /\ mainpc' = "wait"
              /\ UNCHANGED <<scanPos, pending>>

\* the goroutine eg.Go starts for the line f
NewTask(f) ==
    [pc |-> "admit", f |-> f, err |-> NoErr, buf |-> 0, fopen |-> FALSE,
     wopen |-> FALSE, w |-> "none", key |-> <<>>, io |-> <<>>,
     admitted |-> "unchecked", c |-> 0]

\* the tasks that hold a token of the group's semaphore: started, g.done()
\* not yet run
InFlight == {i \in 1..Len(tasks) : tasks[i].pc # "done"}

\* mutant: Go never blocks
SemNoLimit == TRUE

\* errgroup's Go with SetLimit(n): g.sem <- token{} blocks while n tokens
\* are held
SemHasRoom == Cardinality(InFlight) < n

\* eg.Go(func() error {...}): blocks on the semaphore, then starts the task
Go ==
    /\ mainpc = "go"
    /\ ~crashed
    /\ SemHasRoom
    /\ tasks' = Append(tasks, NewTask(pending))
    /\ mainpc' = "scan"
    /\ did' = did \cup {"submit"}
    /\ UNCHANGED <<flagVars, cancelled, gerr, pool, allocated, counters, firstFail,
                   result, temps, deferredRm, listData, scanPos, pending,
                   scanErr, totalLogged, crashed, faults>>

\* task i moves on: its record changes as upd says
SetTask(i, upd) == tasks' = [tasks EXCEPT ![i] = upd]

\* task i is at pc and the process is alive
AtPc(i, pc) == /\ i \in 1..Len(tasks)
               /\ tasks[i].pc = pc
               /\ ~crashed

\* mutant: the task does not look at the context
AdmissionNoCheck == FALSE

\* select { case <-ctx.Done(): return nil; default: }
AdmissionSeesDone == cancelled

\* mutant: the task returns the context's error
AdmissionExitCtxErr(t) ==
    [t EXCEPT !.pc = "ret", !.admitted = "done", !.err = Err("context canceled", 0)]

\* case <-ctx.Done(): return nil
AdmissionExit(t) == [t EXCEPT !.pc = "ret", !.admitted = "done"]

\* the first step of a task: it returns nil when the group's context is
\* done; admitted records what the context was at the check
TaskAdmit(i) ==
    /\ AtPc(i, "admit")
    /\ IF AdmissionSeesDone
       THEN SetTask(i, AdmissionExit(tasks[i]))
       ELSE SetTask(i, [tasks[i] EXCEPT !.pc = "open",
                                        !.admitted = IF cancelled THEN "done" ELSE "live"])
    /\ UNCHANGED <<flagVars, mainVars, cancelled, gerr, pool, allocated, counters,
                   firstFail, crashed, faults>>

\* dest.Path[1:] panics when dest.Path is empty
PathPanics == Len(dest.path) < 1

\* name := path.Join(dest.Path[1:], filepath.ToSlash(f))
ObjectName(f) == PathJoin(SubSeq(dest.path, 2, Len(dest.path)), ToSlash(goos, f))

\* r, err := os.Open(filepath.Join(*dir, f)); defer r.Close(); then the
\* object name and w := o.NewWriter(ctx); defer w.Close()
TaskOpen(i) ==
    /\ AtPc(i, "open")
    /\ \E ok \in BOOLEAN :
          IF ~ok
          THEN /\ SetTask(i, [tasks[i] EXCEPT !.pc = "ret",
                                              !.err = Err("open upload file", i),
                                              !.io = Append(@, "open")])
               /\ faults' = faults \cup {"task fails"}
               /\ UNCHANGED crashed
          ELSE IF PathPanics
          THEN /\ SetTask(i, [tasks[i] EXCEPT !.fopen = TRUE,
                                              !.io = Append(@, "open")])
               /\ crashed' = TRUE
               /\ UNCHANGED faults
          ELSE /\ SetTask(i, [tasks[i] EXCEPT !.pc = "getbuf",
                                              !.fopen = TRUE,
                                              !.wopen = TRUE,
                                              !.w = "open",
                                              !.key = ObjectName(tasks[i].f),
                                              !.io = @ \o <<"open", "new writer">>])
               /\ UNCHANGED <<faults, crashed>>
    /\ UNCHANGED <<flagVars, mainVars, cancelled, gerr, pool, allocated, counters,
                   firstFail>>

\* what Get can do: take a buffer the pool holds, or call New when the
\* pool is empty; sync.Pool's Get may also treat the pool as empty
GetChoices == {"new"} \cup (IF pool > 0 THEN {"pooled"} ELSE {})

\* mutant: Get hands out a buffer and leaves it in the pool
PoolGetKeeps == pool

\* the pool after Get took one of the buffers it holds
PoolGet == pool - 1

\* buf := uploadBufPool.Get().([]byte); defer uploadBufPool.Put(buf)
TaskGetBuf(i) ==
    /\ AtPc(i, "getbuf")
    /\ \E g \in GetChoices :
          IF g = "new"
          THEN /\ allocated' = allocated + 1
               /\ UNCHANGED pool
          ELSE /\ pool' = PoolGet
               /\ UNCHANGED allocated
    /\ SetTask(i, [tasks[i] EXCEPT !.pc = "copy", !.buf = 1])
    /\ UNCHANGED <<flagVars, mainVars, cancelled, gerr, counters, firstFail,
                   crashed, faults>>

\* if _, err := io.CopyBuffer(w, r, buf); err != nil { return ... "upload" }:
\* a read of the local file or a write to the stream can fail
TaskCopy(i) ==
    /\ AtPc(i, "copy")
    /\ \E ok \in BOOLEAN :
          IF ok
          THEN /\ SetTask(i, [tasks[i] EXCEPT !.pc = "close", !.io = Append(@, "copy")])
               /\ UNCHANGED faults
          ELSE /\ SetTask(i, [tasks[i] EXCEPT !.pc = "defers",
                                              !.err = Err("upload", i),
                                              !.io = Append(@, "copy")])
               /\ faults' = faults \cup {"task fails"}
    /\ UNCHANGED <<flagVars, mainVars, cancelled, gerr, pool, allocated, counters,
                   firstFail, crashed>>

\* what w.Close() can return: the writer was made with the group's context,
\* and an upload whose context is done before Close does not commit
CloseOutcomes == IF cancelled THEN {FALSE} ELSE BOOLEAN

\* mutant: the error of w.Close() is not checked
CloseErrIgnored(t, i) ==
    [t EXCEPT !.pc = "count", !.w = "failed", !.wopen = FALSE,
              !.io = Append(@, "close")]

\* task i's record after w.Close() returned an error: the task returns
\* "close writer: ..."
CloseFails(t, i) ==
    [t EXCEPT !.pc = "defers", !.w = "failed", !.wopen = FALSE,
              !.err = Err("close writer", i), !.io = Append(@, "close")]

\* if err := w.Close(); err != nil { return ... "close writer" }
TaskClose(i) ==
    /\ AtPc(i, "close")
    /\ \E ok \in CloseOutcomes :
          IF ok
          THEN /\ SetTask(i, [tasks[i] EXCEPT !.pc = "count", !.w = "committed",
                                              !.wopen = FALSE,
                                              !.io = Append(@, "close")])
               /\ UNCHANGED faults
          ELSE /\ SetTask(i, CloseFails(tasks[i], i))
               /\ faults' = faults \cup {"task fails"}
    /\ UNCHANGED <<flagVars, mainVars, cancelled, gerr, pool, allocated, counters,
                   firstFail, crashed>>

\* mutant: the counter is read and not added to
CountLoad == count

\* count.Add(1): the new value of the counter
CountAdd == count + 1

\* mutant: a pass for every upload once -gc is positive
GCTriggeredEvery(c) == gcInterval > 0

\* *gcInterval > 0 && int(c)%*gcInterval == 0
GCTriggered(c) == gcInterval > 0 /\ c % gcInterval = 0

\* c := count.Add(1); runtime.GC() when c is a multiple of a positive
\* -gc; then return nil
TaskCount(i) ==
    /\ AtPc(i, "count")
    /\ count' = CountAdd
    /\ gcPasses' = gcPasses + (IF GCTriggered(CountAdd) THEN 1 ELSE 0)
    /\ SetTask(i, [tasks[i] EXCEPT !.pc = "defers", !.c = CountAdd])
    /\ UNCHANGED <<flagVars, mainVars, cancelled, gerr, pool, allocated,
                   firstFail, crashed, faults>>

\* the pool after the deferred uploadBufPool.Put(buf)
PoolPut(b) == pool + b

\* mutant: the buffer is not put back
ReleasedNoPut(t) == [t EXCEPT !.fopen = FALSE, !.wopen = FALSE]

\* a task record after the deferred calls: the buffer is back in the pool,
\* the writer and the file are closed
Released(t) == [t EXCEPT !.buf = 0, !.fopen = FALSE, !.wopen = FALSE]

\* the deferred calls of a returning task, last registered first:
\* uploadBufPool.Put(buf), w.Close() and r.Close(). The deferred w.Close()
\* is the first Close of the writer when the copy failed
TaskDefers(i) ==
    /\ AtPc(i, "defers")
    /\ pool' = PoolPut(tasks[i].buf)
    /\ SetTask(i, [Released(tasks[i]) EXCEPT
                     !.pc = "ret",
                     !.w = IF @ = "open" THEN "closed after failed copy" ELSE @,
                     !.io = IF tasks[i].w = "open"
                            THEN Append(@, "deferred close") ELSE @])
    /\ UNCHANGED <<flagVars, mainVars, cancelled, gerr, allocated, counters,
                   firstFail, crashed, faults>>

\* mutant: every error replaces the group's error
LastErr(e) == e

\* g.errOnce.Do: only the first error is kept
OnceErr(e) == IF gerr = NoErr THEN e ELSE gerr

\* the group's goroutine after f returned:
\* if err != nil { g.errOnce.Do(func() { g.err = err; g.cancel(g.err) }) },
\* then the deferred g.done(): the token goes back to the semaphore and
\* wg.Done() runs
GroupDone(i) ==
    /\ AtPc(i, "ret")
    /\ IF tasks[i].err # NoErr
       THEN /\ gerr' = OnceErr(tasks[i].err)
            /\ cancelled' = TRUE
            /\ firstFail' = IF firstFail = 0 THEN i ELSE firstFail
       ELSE UNCHANGED <<gerr, cancelled, firstFail>>
    /\ SetTask(i, [tasks[i] EXCEPT !.pc = "done"])
    /\ UNCHANGED <<flagVars, mainVars, pool, allocated, counters, crashed, faults>>

\* the runtime may drop an item a sync.Pool holds at any time
PoolDrop ==
    /\ ~crashed
    /\ mainpc \in {"scan", "go", "wait"}
    /\ pool > 0
    /\ pool' = pool - 1
    /\ UNCHANGED <<flagVars, mainVars, tasks, cancelled, gerr, allocated, counters,
                   firstFail, crashed, faults>>

\* mutant: listFileScanner.Err() is not looked at
WaitResultNoScan == IF gerr # NoErr THEN RunErr("uploads", gerr) ELSE Nil

\* what run() returns after eg.Wait()
WaitResult ==
    IF gerr # NoErr THEN RunErr("uploads", gerr)
    ELSE IF scanErr THEN RunErr("scan list file", NoErr)
    ELSE Nil

\* mutant: the total is logged before the error returns
TotalLinesAlways(r) == 1

\* the "total:" lines run() logs when it returns r after eg.Wait(): the
\* log.Printf comes after both error returns
TotalLines(r) == IF r = Nil THEN 1 ELSE 0

\* eg.Wait(): wg.Wait(), then the group's cancel; then the rest of run()
Wait ==
    /\ mainpc = "wait"
    /\ ~crashed
    /\ InFlight = {}
    /\ cancelled' = TRUE
    /\ UNCHANGED <<flagVars, tasks, gerr, pool, allocated, counters, firstFail,
                   deferredRm, listData, scanPos, pending, scanErr, crashed,
                   did, faults>>
    /\ totalLogged' = totalLogged + TotalLines(WaitResult)
    /\ Return(WaitResult, {})

Next ==
    \/ CheckConfig
    \/ WriteListFile
    \/ ShuffleListFile
    \/ OpenList
    \/ NewClient
    \/ ScanNext
    \/ Go
    \/ \E i \in 1..Len(tasks) : TaskAdmit(i)
    \/ \E i \in 1..Len(tasks) : TaskOpen(i)
    \/ \E i \in 1..Len(tasks) : TaskGetBuf(i)
    \/ \E i \in 1..Len(tasks) : TaskCopy(i)
    \/ \E i \in 1..Len(tasks) : TaskClose(i)
    \/ \E i \in 1..Len(tasks) : TaskCount(i)
    \/ \E i \in 1..Len(tasks) : TaskDefers(i)
    \/ \E i \in 1..Len(tasks) : GroupDone(i)
    \/ PoolDrop
    \/ Wait

Spec == Init /\ [][Next]_vars

\* the scheduler runs every goroutine that can take a step
FairSpec == Spec /\ WF_vars(Next)

(***************************************************************************)
(* Properties.                                                             *)
(***************************************************************************)
Submitted == 1..Len(tasks)

\* some task's step has failed
AnyFailed == \E j \in Submitted : tasks[j].err # NoErr

\* C1, as claimed: once any task has failed (its open, copy or finalize
\* returned an error), no task that has not begun its local open performs
\* I/O afterwards, whenever it did its admission check
C1_NoIOAfterFailure ==
    [][\A i \in Submitted :
          (AnyFailed /\ tasks[i].io = <<>>) => tasks'[i].io = <<>>]_vars

\* C1, amended: a task whose admission check takes place when the group's
\* context is done performs no I/O and holds nothing
C1_NoIOAfterSignal ==
    \A i \in Submitted :
        tasks[i].admitted = "done"
            => /\ tasks[i].io = <<>>
               /\ ~tasks[i].fopen
               /\ ~tasks[i].wopen
               /\ tasks[i].buf = 0
               /\ tasks[i].pc \in {"ret", "done"}

\* a task left at its admission check, after another task's failure
C1_Witness ==
    \E i, j \in Submitted :
        /\ tasks[i].admitted = "done"
        /\ tasks[i].pc = "done"
        /\ tasks[j].err # NoErr
        /\ tasks[j].io # <<>>

\* C2: at most n tasks hold an open local file, at most n an open remote
\* stream, and at most n are in flight
C2_ConcurrencyLimit ==
    /\ Cardinality({i \in Submitted : tasks[i].fopen}) <= n
    /\ Cardinality({i \in Submitted : tasks[i].wopen}) <= n
    /\ Cardinality(InFlight) <= n

\* n tasks hold a file and a stream while the list has more lines than n
C2_Witness ==
    /\ Cardinality({i \in Submitted : tasks[i].fopen /\ tasks[i].wopen}) = n
    /\ Len(ScanLines(listData)) > n
    /\ mainpc = "go"

\* the tasks that hold a buffer of the pool
Holders == {i \in Submitted : tasks[i].buf # 0}

\* C3, as claimed: the pool never allocates more than n buffers in a run
C3_AllocatedAtMostN == allocated <= n

\* C3, amended: at most n buffers are checked out at any time, and the pool
\* allocates at most one buffer for each task
C3_HeldAtMostN ==
    /\ Cardinality(Holders) <= n
    /\ allocated <= Len(tasks)

\* n buffers are checked out, and more than n were allocated before
C3_Witness ==
    /\ Cardinality(Holders) = n
    /\ allocated > n

\* the files the run has to upload: the tree's files, or the list's lines
Enumerated == IF dirSet THEN src ELSE ScanLines(Serialize(src))

\* the number of the places of the sequence s that hold x
Occurrences(s, x) == Cardinality({k \in 1..Len(s) : s[k] = x})

\* the tasks that uploaded an object for the path x
Uploads(x) == {i \in Submitted : tasks[i].f = x /\ tasks[i].w = "committed"}

\* C4: when no step failed and run() has returned, it returned nil, the
\* counter is the number of files enumerated, and every file was uploaded
\* once
C4_Complete ==
    (mainpc = "returned" /\ ConfigError = Nil /\ faults = {})
        => /\ result = Nil
           /\ count = Len(Enumerated)
           /\ \A k \in 1..Len(Enumerated) :
                 Cardinality(Uploads(Enumerated[k])) = Occurrences(Enumerated, Enumerated[k])

\* the stages a task's error names
TaskStages == {"open upload file", "upload", "close writer"}

\* C5: the group keeps the error of the first task whose error reached it,
\* and run() returns that one, wrapped, whatever fails later
C5_FirstErrorWins ==
    /\ (firstFail = 0) = (gerr = NoErr)
    /\ firstFail # 0
          => /\ gerr = tasks[firstFail].err
             /\ gerr.stage \in TaskStages
             /\ gerr.task = firstFail
    /\ (mainpc = "returned" /\ firstFail # 0)
          => result = RunErr("uploads", tasks[firstFail].err)

\* run() has returned the first error after a second task failed too
C5_Witness ==
    /\ mainpc = "returned"
    /\ firstFail # 0
    /\ result.cause = tasks[firstFail].err
    /\ \E j \in Submitted : j # firstFail /\ tasks[j].err # NoErr

\* C6, as claimed: a run that reached the upload phase and read its list
\* has logged the total once when it returns, whether its tasks succeeded
\* or the batch aborted
C6_TotalAlwaysLogged ==
    (mainpc = "returned" /\ "uploads start" \in did /\ ~scanErr) => totalLogged = 1

\* C6, amended: the total is logged once by a run that returns nil, and not
\* at all by a run that returns an error or has not returned
C6_TotalOnSuccessOnly ==
    totalLogged = IF mainpc = "returned" /\ result = Nil THEN 1 ELSE 0

\* a run whose uploads failed has returned
C6_Witness ==
    /\ mainpc = "returned"
    /\ result.kind = "uploads"
    /\ "uploads start" \in did

\* C7: no temporary file is left when run() has returned
C7_TempsRemoved == mainpc = "returned" => temps = {}

\* C8: the run does not stop before run() has returned
C8_Terminates == mainpc = "returned" \/ ENABLED Next

\* with a fair scheduler run() returns unless the process has died
ReturnsUnlessCrashed == <>(mainpc = "returned" \/ crashed)

\* the flags or the destination are not valid
BadConfig == (dirSet = listSet) \/ dest.scheme # "gs"

ConfigErrKinds ==
    {"target not found", "cannot use both -l and -d", "dest must start with gs://"}

\* C9: with bad flags or a bad destination run() returns a configuration
\* error from its first step, and has then done nothing else
C9_ConfigErrorsFirst ==
    (BadConfig /\ mainpc # "config")
        => /\ mainpc = "returned"
           /\ result.kind \in ConfigErrKinds
           /\ did = {}
           /\ temps = {}
           /\ tasks = <<>>
           /\ allocated = 0

\* run() returned on a destination that is not gs:// with good flags
C9_Witness ==
    /\ mainpc = "returned"
    /\ dest.scheme # "gs"
    /\ dirSet # listSet
    /\ result.kind = "dest must start with gs://"

\* the object name C10 states: the destination path without its leading
\* slash, "/", and the path with forward slashes
StatedKey(f) ==
    SubSeq(dest.path, 2, Len(dest.path)) \o <<Slash>>
        \o [k \in 1..Len(f) |-> IF f[k] = BackSlash /\ goos = "windows" THEN Slash ELSE f[k]]

\* C10: with a gs:// destination no task's object name fails, and every
\* writer is made for the stated object name
C10_KeyNeverFails ==
    /\ ~crashed
    /\ \A i \in Submitted :
          tasks[i].w # "none" => tasks[i].key = StatedKey(tasks[i].f)

\* the lines the program reads from the list it was given, before any shuffle
LinesBefore == ScanLines(Serialize(src))

\* the lines the program reads from the file listFilePath names
LinesNow == ScanLines(listData)

\* C11: after shuffleListFile the list holds the same multiset of lines as
\* before it: every line occurs as often as it did, none is lost, added or
\* altered
C11_ShuffleBijection ==
    "shuffled" \in deferredRm
        => /\ Len(LinesNow) = Len(LinesBefore)
           /\ \A k \in 1..Len(LinesBefore) :
                 Occurrences(LinesNow, LinesBefore[k])
                     = Occurrences(LinesBefore, LinesBefore[k])

\* lists without carriage returns keep their lines through the shuffle
C11_PlainListsKept ==
    (\A k \in 1..Len(src) : \A m \in 1..Len(src[k]) : src[k][m] # CR)
        => C11_ShuffleBijection

\* the forward-slash spelling of a path written with Windows separators
Slashed(f) == [k \in 1..Len(f) |-> IF f[k] = BackSlash THEN Slash ELSE f[k]]

\* C12: the object name a task computes for a path is the one it computes
\* for the path's forward-slash spelling
C12_SeparatorsNormalised ==
    \A i \in Submitted :
        tasks[i].w # "none" => tasks[i].key = ObjectName(Slashed(tasks[i].f))

\* the object name of the path f on a build for the operating system os
ObjectNameOn(os, f) == PathJoin(SubSeq(dest.path, 2, Len(dest.path)), ToSlash(os, f))

\* on a Windows build the two spellings of every submitted path get the
\* same object name
C12_WindowsBuildAgrees ==
    \A i \in Submitted :
        ObjectNameOn("windows", tasks[i].f) = ObjectNameOn("windows", Slashed(tasks[i].f))

\* the steps of a task in the order of the code, the deferred calls aside
Steps == <<"open", "new writer", "copy", "close">>

\* a is a prefix of b
IsPrefix(a, b) == Len(a) <= Len(b) /\ SubSeq(b, 1, Len(a)) = a

\* the steps task i took before its deferred calls
OwnSteps(i) == SelectSeq(tasks[i].io, LAMBDA e : e # "deferred close")

\* C13: a task's steps come in the order open source, open sink, copy,
\* finalize; it counts only after its own finalize returned without error,
\* and a task whose finalize failed returns the error, which reaches the
\* group, and does not count
C13_TaskOrder ==
    \A i \in Submitted :
        /\ IsPrefix(OwnSteps(i), Steps)
        /\ tasks[i].pc = "count" => (tasks[i].io = Steps /\ tasks[i].w = "committed")
        /\ tasks[i].c # 0
              => /\ tasks[i].io = Steps
                 /\ tasks[i].w = "committed"
                 /\ tasks[i].err = NoErr
        /\ tasks[i].w = "failed"
              => /\ tasks[i].io = Steps
                 /\ tasks[i].err = Err("close writer", i)
                 /\ tasks[i].c = 0
                 /\ tasks[i].pc \in {"defers", "ret", "done"}
                 /\ tasks[i].pc = "done" => (gerr # NoErr /\ cancelled)

\* one task has counted its upload and another's finalize has failed and
\* reached the group
C13_Witness ==
    \E i, j \in Submitted :
        /\ tasks[i].c # 0
        /\ tasks[i].pc = "done"
        /\ tasks[j].w = "failed"
        /\ tasks[j].pc = "done"
        /\ gerr = Err("close writer", j)

\* the tasks whose admission check found the context live
AdmittedLive == {j \in Submitted : tasks[j].admitted = "live"}

\* C14: a task whose admission check finds the context done returns at
\* once with no error and no success: it has no file, no stream, no
\* buffer, no count and no error, the group's error is not its own, and
\* the counter and the pool's allocations are those of the other tasks
C14_AdmissionExit ==
    /\ \A i \in Submitted :
          tasks[i].admitted = "done"
              => /\ tasks[i].pc \in {"ret", "done"}
                 /\ tasks[i].err = NoErr
                 /\ tasks[i].c = 0
                 /\ tasks[i].io = <<>>
                 /\ tasks[i].w = "none"
                 /\ tasks[i].key = <<>>
                 /\ ~tasks[i].fopen /\ ~tasks[i].wopen
                 /\ tasks[i].buf = 0
                 /\ firstFail # i
                 /\ gerr.task # i
    /\ count <= Cardinality(AdmittedLive)
    /\ allocated <= Cardinality(AdmittedLive)

\* run() has returned another task's error after a task left at its
\* admission check
C14_Witness ==
    \E i \in Submitted :
        /\ tasks[i].admitted = "done"
        /\ mainpc = "returned"
        /\ firstFail \notin {0, i}
        /\ result = RunErr("uploads", tasks[firstFail].err)

\* C15: once a failing task has set the signal, a task that is past its
\* copy can still finalize its stream: the signal does not make its
\* Close fail
C15_NoHardAbort ==
    \A i \in Submitted :
        (firstFail # 0 /\ tasks[i].pc = "close" /\ ~crashed)
            => ENABLED (TaskClose(i) /\ tasks'[i].w = "committed")

\* without the signal a task at its Close can always commit
C15_LiveCloseCanCommit ==
    \A i \in Submitted :
        (~cancelled /\ tasks[i].pc = "close" /\ ~crashed)
            => ENABLED (TaskClose(i) /\ tasks'[i].w = "committed")

\* the tasks that have taken a buffer from the pool
Acquirers ==
    {i \in Submitted :
        \/ tasks[i].pc \in {"copy", "close", "count", "defers"}
        \/ tasks[i].pc \in {"ret", "done"} /\ Len(tasks[i].io) >= 3}

\* C16: every buffer that exists is in the pool or held by one task, so no
\* buffer is held by two; a task holds a buffer only between its Get and
\* its deferred Put, which runs before it returns on every path; a task
\* that left at its admission check or at a failed open took none
C16_BufferOwnership ==
    /\ pool + Cardinality(Holders) <= allocated
    /\ allocated <= Cardinality(Acquirers)
    /\ \A i \in Submitted :
          /\ tasks[i].buf \in {0, 1}
          /\ tasks[i].buf = 1 => i \in Acquirers
          /\ tasks[i].pc \in {"admit", "open", "getbuf", "ret", "done"}
                => tasks[i].buf = 0
          /\ (tasks[i].admitted = "done" \/ tasks[i].err.stage = "open upload file")
                => i \notin Acquirers

\* the buffers of a task whose copy failed and of a task whose finalize
\* failed are both back in the pool
C16_Witness ==
    \E i, j \in Submitted :
        /\ tasks[i].err.stage = "upload"
        /\ tasks[j].err.stage = "close writer"
        /\ tasks[i].pc = "done" /\ tasks[j].pc = "done"
        /\ pool = 2
        /\ allocated = 2

\* the tasks that have incremented the counter
Counted == {i \in Submitted : tasks[i].c # 0}

\* the tasks whose finalize succeeded
Committed == {i \in Submitted : tasks[i].w = "committed"}

\* the counter and the values the tasks obtained from it
C17_CounterState ==
    /\ {tasks[i].c : i \in Counted} = 1..count
    /\ Cardinality(Counted) = count
    /\ Counted \subseteq Committed
    /\ \A i \in Committed : tasks[i].pc # "count" => i \in Counted
    /\ mainpc = "returned" => count = Cardinality(Committed)

\* C17: the counter never decreases; the tasks whose finalize succeeded,
\* and no others, increment it once each and obtain the distinct values
\* 1..count; when run() has returned it is the number of those tasks
C17_Counter ==
    /\ []C17_CounterState
    /\ [][count' >= count /\ count' <= count + 1]_vars

\* an aborted run has returned with a counted upload and a failed one
C17_Witness ==
    /\ mainpc = "returned"
    /\ result.kind = "uploads"
    /\ count = 1
    /\ \E i, j \in Submitted : tasks[i].c = 1 /\ tasks[j].err # NoErr

(***************************************************************************)
(* Runs with the -gc flag.                                                 *)
(***************************************************************************)
\* the largest value of the -gc flag
MaxGC == 2

\* run() starts with -l, without -shuffle, on a destination with a path,
\* with -gc from 0 (the default, no passes) to MaxGC
GCInit ==
    /\ dirSet = FALSE
    /\ listSet = TRUE
    /\ shuffle = FALSE
    /\ n \in 1..MaxN
    /\ dest = [scheme |-> "gs", host |-> "bucket", path |-> <<"/", "p">>]
    /\ goos = "linux"
    /\ gcInterval \in 0..MaxGC
    /\ src \in {SubSeq(FileNames, 1, k) : k \in 0..MaxFiles}
    /\ mainpc = "config"
    /\ result = Running
    /\ temps = {}
    /\ deferredRm = {}
    /\ listData = IF listSet THEN Serialize(src) ELSE <<>>
    /\ scanPos = 0
    /\ pending = <<>>
    /\ scanErr = FALSE
    /\ tasks = <<>>
    /\ cancelled = FALSE
    /\ gerr = NoErr
    /\ pool = 0
    /\ allocated = 0
    /\ count = 0
    /\ gcPasses = 0
    /\ totalLogged = 0
    /\ crashed = FALSE
    /\ did = {}
    /\ faults = {}
    /\ firstFail = 0

\* the steps of such a run: writeListFile and shuffleListFile are not called
GCNext ==
    \/ CheckConfig
    \/ OpenList
    \/ NewClient
    \/ ScanNext
    \/ Go
    \/ \E i \in 1..Len(tasks) : TaskAdmit(i)
    \/ \E i \in 1..Len(tasks) : TaskOpen(i)
    \/ \E i \in 1..Len(tasks) : TaskGetBuf(i)
    \/ \E i \in 1..Len(tasks) : TaskCopy(i)
    \/ \E i \in 1..Len(tasks) : TaskClose(i)
    \/ \E i \in 1..Len(tasks) : TaskCount(i)
    \/ \E i \in 1..Len(tasks) : TaskDefers(i)
    \/ \E i \in 1..Len(tasks) : GroupDone(i)
    \/ PoolDrop
    \/ Wait

GCSpec == GCInit /\ [][GCNext]_vars

\* C18: the passes triggered are one for each multiple of -gc among the
\* values 1..count of the counter, count \div gcInterval in all, and none
\* with -gc 0; the tasks' results are those of their own steps, and a run
\* without a failed step uploads every file
C18_Reclamation ==
    /\ gcPasses = IF gcInterval = 0 THEN 0 ELSE count \div gcInterval
    /\ gcPasses = Cardinality({i \in Counted : GCTriggered(tasks[i].c)})
    /\ \A i \in Counted : tasks[i].err = NoErr
    /\ (mainpc = "returned" /\ faults = {})
          => /\ result = Nil
             /\ count = Len(src)
             /\ \A k \in 1..Len(src) : Uploads(src[k]) # {}

\* a run of two uploads with -gc 2 has returned after one pass
C18_Witness ==
    /\ mainpc = "returned"
    /\ result = Nil
    /\ gcInterval = 2
    /\ count = 2
    /\ gcPasses = 1

\* C19: Close is invoked on a task's writer only after the task's copy
\* returned without error: no writer of a task whose copy failed is closed
C19_FinalizeOnlyAfterCopy ==
    \A i \in Submitted :
        tasks[i].err.stage = "upload" => tasks[i].w \in {"none", "open"}

\* the explicit w.Close() is reached only after a copy without error
C19_ExplicitCloseAfterCopy ==
    \A i \in Submitted :
        tasks[i].w \in {"committed", "failed"}
            => /\ SubSeq(tasks[i].io, 1, 3) = <<"open", "new writer", "copy">>
               /\ tasks[i].err.stage # "upload"

\* C20: a read error of the list ends the submission loop; run() returns
\* only when every submitted task is done, and then returns an error: the
\* first upload error if a task failed, the scan error otherwise. run()
\* returns nil only when the list was read to its end without error and no
\* task failed
C20_ScanErrorsReturned ==
    /\ scanErr
          => /\ mainpc \in {"wait", "returned"}
             /\ Len(tasks) = scanPos
    /\ (mainpc = "returned" /\ "scan fails" \in faults) => result # Nil
    /\ mainpc = "returned" => InFlight = {}
    /\ (mainpc = "returned" /\ scanErr)
          => result = IF firstFail # 0
                      THEN RunErr("uploads", tasks[firstFail].err)
                      ELSE RunErr("scan list file", NoErr)
    /\ (mainpc = "returned" /\ result = Nil)
          => /\ ~scanErr
             /\ scanPos = Len(ScanLines(listData))
             /\ Len(tasks) = scanPos
             /\ \A i \in Submitted : tasks[i].err = NoErr

\* run() has returned the scan error after the task it had submitted
\* committed its upload
C20_Witness ==
    /\ mainpc = "returned"
    /\ scanErr
    /\ result = RunErr("scan list file", NoErr)
    /\ Len(tasks) = 1
    /\ tasks[1].w = "committed"
    /\ Len(ScanLines(listData)) = 2
====
